---- MODULE Spec2Model ----
(***************************************************************************)
(* Model of the auto-resizing hash-table engine of src/script.js (the      *)
(* second closure of the file, lines 613-1455): four collision strategies  *)
(* behind HashingController.                                               *)
(*                                                                         *)
(* Keys are JavaScript strings, written here as sequences of UTF-16 code   *)
(* units (<<51>> is "3", <<49, 48>> is "10").  A 32-bit hash is the pair   *)
(* [hi, lo] of its 16-bit halves, so that no intermediate value leaves the *)
(* range of the model checker's integers.                                  *)
(***************************************************************************)
EXTENDS Integers, Sequences, FiniteSets, TLC

(***************************************************************************)
(* Bounds of the model.                                                    *)
(***************************************************************************)
\* depth of insert's self-recursion at which the engine's call stack is full
StackLimit == 3

(***************************************************************************)
(* Program constants.                                                      *)
(***************************************************************************)
MIN_TABLE_SIZE == 3
MAX_TABLE_SIZE == 199
\* 0x811c9dc5, the seed of hashCode, as two 16-bit halves
FNV_OFFSET_HI == 33052
FNV_OFFSET_LO == 40389
\* 0x01000193, the multiplier of hashCode, as two 16-bit halves
FNV_PRIME_HI == 256
FNV_PRIME_LO == 403
\* the controller's fallback size, `Number(this.sizeInput.value) || 11`
DEFAULT_SIZE == 11

\* table[index] === null and table[index] === TOMBSTONE: two values that no
\* string equals (a code unit is never negative)
NULL == <<-1>>
TOMBSTONE == <<-2>>

Strategies ==
  {"separateChaining", "linearProbing", "quadraticProbing", "doubleHashing"}

\* strategyMetadata[strategyName].mode
strategyMode(strategyName) ==
  IF strategyName = "separateChaining" THEN "chaining" ELSE "open"

(***************************************************************************)
(* What the user types into the key input, one spelling per key: "03",     *)
(* " 10 ", "18", "23", "69", "97".  The keys "3", "18", "23", "69", "97"   *)
(* share bucket 13 of a table of 17 slots; "3" and "10" share bucket 5 of  *)
(* a table of 7.                                                           *)
(***************************************************************************)
RawKeys ==
  { <<48, 51>>, <<32, 49, 48, 32>>, <<49, 56>>, <<50, 51>>, <<54, 57>>,
    <<57, 55>> }

(***************************************************************************)
(* Seven keys, "16", "24", "6", "0", "31", "46", "3", that crowd the six   *)
(* slots a quadratic probe sequence visits in a table of 11.               *)
(***************************************************************************)
CompactionKeys ==
  { <<49, 54>>, <<50, 52>>, <<54>>, <<48>>, <<51, 49>>, <<52, 54>>, <<51>> }

(***************************************************************************)
(* 199 numbers whose decimal spellings have the 199 different buckets of a  *)
(* table of 199 slots, the n-th the bucket n - 1: typed in one after the    *)
(* other they fill a linear-probing table of the maximum size, each key in  *)
(* its own bucket.                                                          *)
(***************************************************************************)
SaturatingNumbers ==
  << 116, 118, 378, 227, 352, 315, 258, 167, 456, 283, 216, 171, 238, 279,
     442, 145, 202, 420, 228, 310, 255, 125, 453, 102, 288, 360, 139, 556,
     441, 142, 155, 370, 268, 266, 252, 126, 705, 107, 218, 365, 179, 132,
     444, 111, 150, 373, 222, 265, 788, 123, 160, 104, 418, 213, 174, 131,
     1013, 114, 153, 376, 221, 260, 317, 321, 165, 454, 281, 210, 173, 134,
     551, 117, 119, 200, 224, 301, 312, 129, 166, 451, 284, 215, 362, 249,
     278, 443, 144, 203, 421, 229, 311, 254, 124, 452, 101, 289, 367, 234,
     349, 446, 141, 156, 371, 269, 267, 251, 121, 594, 106, 521, 364, 176,
     133, 445, 112, 151, 374, 223, 262, 823, 122, 163, 486, 109, 212, 175,
     136, 1014, 115, 184, 377, 226, 261, 314, 259, 164, 457, 282, 217, 170,
     135, 552, 148, 146, 201, 225, 299, 313, 128, 169, 450, 103, 214, 361,
     138, 555, 440, 143, 154, 381, 305, 630, 253, 127, 841, 100, 219, 366,
     178, 338, 447, 110, 157, 372, 293, 264, 250, 120, 161, 105, 419, 761,
     177, 130, 834, 113, 152, 375, 220, 263, 316, 322, 162, 455, 108, 211,
     172, 137, 550 >>

\* String(n) of a natural number
RECURSIVE decimal(_)
decimal(n) ==
  IF n < 10 THEN <<48 + n>> ELSE Append(decimal(n \div 10), 48 + (n % 10))

SaturatingKeys ==
  [i \in 1..Len(SaturatingNumbers) |-> decimal(SaturatingNumbers[i])]

\* what is typed on the full table: "3" and "10", which it does not hold
SaturatedKeys == { <<51>>, <<49, 48>> }

(***************************************************************************)
(* Numbers as the size input delivers them: Number(sizeInput.value) is a   *)
(* finite integer, NaN or an infinity.                                     *)
(***************************************************************************)
Int_(n) == [kind |-> "int", v |-> n]
NaN == [kind |-> "nan", v |-> 0]
PosInf == [kind |-> "inf", v |-> 1]
NegInf == [kind |-> "inf", v |-> -1]

SizeInputs ==
  {Int_(-4), Int_(0), Int_(4), Int_(17), NaN, PosInf}

\* the same with a size above the maximum
WideSizeInputs == SizeInputs \cup {Int_(200)}

\* the size input left empty, or holding the size the page starts with
DefaultSizeInputs == {NaN, Int_(11)}

\* the options of the strategy select used around the full table
SaturatedStrategies == {"linearProbing", "separateChaining"}

\* a size above the maximum, which makes the table one of 199 slots
SaturatedSizeInputs == {Int_(200)}

\* the keys whose order of insertion is observed: "3" and "10"
WatchedKeys == { <<51>>, <<49, 48>> }

\* every size from the minimum to the maximum, as the size input delivers it
StepSizeInputs == {Int_(n) : n \in MIN_TABLE_SIZE..MAX_TABLE_SIZE}

\* chaining takes every size as it is, double hashing steps by secondaryStep
StepStrategies == {"separateChaining", "doubleHashing"}

\* "03" and " 10 ": the keys "3" and "10" share bucket 5 of a table of 7
StepKeys == { <<48, 51>>, <<32, 49, 48, 32>> }

\* the two options of the strategy select the crowding keys are fed to
CompactionStrategies == {"separateChaining", "quadraticProbing"}

Min(a, b) == IF a < b THEN a ELSE b
Max(a, b) == IF a > b THEN a ELSE b
SetMin(S) == CHOOSE x \in S : \A y \in S : x <= y

(***************************************************************************)
(* clampTableSize, isPrime, nextPrime, previousPrime                       *)
(***************************************************************************)
\* clampTableSize without the upper limit
clampTableSizeUncapped(value) ==
  Max(IF value.kind = "int" THEN value.v ELSE MIN_TABLE_SIZE, MIN_TABLE_SIZE)

clampTableSize(value) ==
  LET numeric == IF value.kind = "int" THEN value.v ELSE MIN_TABLE_SIZE
  IN  Min(Max(numeric, MIN_TABLE_SIZE), MAX_TABLE_SIZE)

isPrime(n) ==
  IF n <= 1 THEN FALSE
  ELSE IF n <= 3 THEN TRUE
  ELSE IF n % 2 = 0 \/ n % 3 = 0 THEN FALSE
  ELSE \A j \in 0..n :
         LET i == 5 + 6 * j
         IN  i * i <= n => (n % i # 0 /\ n % (i + 2) # 0)

RECURSIVE nextPrimeLoop(_)
nextPrimeLoop(candidate) ==
  IF candidate <= MAX_TABLE_SIZE
  THEN IF isPrime(candidate) THEN candidate ELSE nextPrimeLoop(candidate + 2)
  ELSE MAX_TABLE_SIZE

\* nextPrime without `if (candidate % 2 === 0) candidate += 1`
nextPrimeFromEven(n) == nextPrimeLoop(clampTableSize(Int_(n)))

nextPrime(n) ==
  LET c == clampTableSize(Int_(n))
  IN  nextPrimeLoop(IF c % 2 = 0 THEN c + 1 ELSE c)

RECURSIVE previousPrimeLoop(_)
previousPrimeLoop(candidate) ==
  IF candidate >= MIN_TABLE_SIZE
  THEN IF isPrime(candidate) THEN candidate
       ELSE previousPrimeLoop(candidate - 2)
  ELSE MIN_TABLE_SIZE

\* previousPrime without the search for a prime
previousPrimeUnsearched(n) == clampTableSize(Int_(n))

previousPrime(n) ==
  LET c == clampTableSize(Int_(n))
  IN  IF c <= MIN_TABLE_SIZE THEN MIN_TABLE_SIZE
      ELSE previousPrimeLoop(IF c % 2 = 0 THEN c - 1 ELSE c)

normaliseSizeForStrategy(value, strategyName) ==
  LET clamped == clampTableSize(value)
  IN  IF strategyMode(strategyName) = "open" THEN nextPrime(clamped)
      ELSE clamped

\* Math.ceil(size * 1.6), Math.ceil(size * 1.35), Math.floor(size / 1.6),
\* Math.floor(size / 1.5): exact in integers for every size in 3..199 except
\* ceil(180 * 1.35), which the double arithmetic makes 244 instead of 243;
\* both are clamped to 199.
ceilTimes16(size) == (16 * size + 9) \div 10
ceilTimes135(size) == IF size = 180 THEN 244 ELSE (135 * size + 99) \div 100
floorDiv16(size) == (10 * size) \div 16
floorDiv15(size) == (10 * size) \div 15

(***************************************************************************)
(* normaliseKey                                                            *)
(***************************************************************************)
IsSpace(c) == c \in {9, 10, 11, 12, 13, 32}
IsDigit(c) == c \in 48..57

RECURSIVE trimLeft(_)
trimLeft(s) ==
  IF s # <<>> /\ IsSpace(Head(s)) THEN trimLeft(Tail(s)) ELSE s

RECURSIVE trimRight(_)
trimRight(s) ==
  IF s # <<>> /\ IsSpace(s[Len(s)])
  THEN trimRight(SubSeq(s, 1, Len(s) - 1)) ELSE s

\* String.prototype.trim
trim(s) == trimRight(trimLeft(s))

RECURSIVE stripZeros(_)
stripZeros(s) ==
  IF Len(s) > 1 /\ Head(s) = 48 THEN stripZeros(Tail(s)) ELSE s

\* /^-?\d+$/.test(key)
isIntegerLiteral(key) ==
  LET digits == IF key # <<>> /\ Head(key) = 45 THEN Tail(key) ELSE key
  IN  digits # <<>> /\ \A i \in 1..Len(digits) : IsDigit(digits[i])

\* String(parseInt(key, 10)) for a literal of at most 15 digits
canonicalInteger(key) ==
  LET negative == Head(key) = 45
      digits == stripZeros(IF negative THEN Tail(key) ELSE key)
  IN  IF negative /\ digits # <<48>> THEN <<45>> \o digits ELSE digits

normaliseKey(rawKey) ==
  LET key == trim(rawKey)
  IN  IF isIntegerLiteral(key) THEN canonicalInteger(key) ELSE key

(***************************************************************************)
(* hashCode, primaryIndex, secondaryStep                                   *)
(***************************************************************************)
RECURSIVE xorBits(_, _, _)
xorBits(a, b, bits) ==
  IF bits = 0 THEN 0
  ELSE (((a % 2) + (b % 2)) % 2) + 2 * xorBits(a \div 2, b \div 2, bits - 1)

\* hash ^= key.charCodeAt(i): a code unit touches the low half only
xorCode(hash, code) == [hi |-> hash.hi, lo |-> xorBits(hash.lo, code, 16)]

\* Math.imul(hash, 0x01000193), modulo 2^32
imulPrime(hash) ==
  LET low == hash.lo * FNV_PRIME_LO
  IN  [hi |-> (hash.hi * FNV_PRIME_LO + hash.lo * FNV_PRIME_HI
                 + (low \div 65536)) % 65536,
       lo |-> low % 65536]

RECURSIVE hashLoop(_, _, _)
hashLoop(key, i, hash) ==
  IF i > Len(key) THEN hash
  ELSE hashLoop(key, i + 1, imulPrime(xorCode(hash, key[i])))

fnv1a(key) == hashLoop(key, 1, [hi |-> FNV_OFFSET_HI, lo |-> FNV_OFFSET_LO])

\* the keys the spellings stand for
Keys == {normaliseKey(rawKey) : rawKey \in RawKeys}

\* the hash of every spelling and every key of the model, computed once
HashOf ==
  [rawKey \in RawKeys \cup Keys \cup CompactionKeys |->
     fnv1a(normaliseKey(rawKey))]

\* the same for the keys that fill the table of 199 slots
SaturatingHashOf ==
  [rawKey \in {SaturatingKeys[i] : i \in DOMAIN SaturatingKeys} |->
     fnv1a(normaliseKey(rawKey))]

hashCode(rawKey) ==
  IF rawKey \in DOMAIN HashOf THEN HashOf[rawKey]
  ELSE IF rawKey \in DOMAIN SaturatingHashOf THEN SaturatingHashOf[rawKey]
  ELSE fnv1a(normaliseKey(rawKey))

\* the remainder of the low 16 bits of the hash alone
hashModOfLowHalf(hash, n) == hash.lo % n

\* (hash >>> 0) % n for the unsigned value hi * 2^16 + lo
hashMod(hash, n) == (((hash.hi % n) * (65536 % n)) + (hash.lo % n)) % n

primaryIndex(rawKey, size) == hashMod(hashCode(rawKey), size)

\* a step taken modulo the size instead of the size less one
secondaryStepModSize(rawKey, size) ==
  IF size <= 1 THEN 1
  ELSE LET step == 1 + hashMod(hashCode(rawKey), size)
       IN  IF step = 0 THEN 1 ELSE step

secondaryStep(rawKey, size) ==
  IF size <= 1 THEN 1
  ELSE LET step == 1 + hashMod(hashCode(rawKey),
                               IF size - 1 = 0 THEN 1 ELSE size - 1)
       IN  IF step = 0 THEN 1 ELSE step

(***************************************************************************)
(* A strategy object: size, table, count, tombstones.  `thrown` is the     *)
(* message of the Error that ended the running call ("" while none has);   *)
(* `rehashes` observes every rehash the running call has started: the keys *)
(* stored before and after it, the keys search finds after it, and the     *)
(* tombstone counter and tombstone slots it leaves.                        *)
(***************************************************************************)
NoError == ""
RehashFailed == "Rehash failed to allocate slot."
StackExhausted == "Maximum call stack size exceeded"

isKey(entry) == entry # NULL /\ entry # TOMBSTONE

nonEmpty(bucket) == bucket # <<>>

RECURSIVE concat(_)
concat(chains) ==
  IF chains = <<>> THEN <<>> ELSE Head(chains) \o concat(Tail(chains))

\* this.table.flat(): the chains end to end (the empty ones add nothing)
flat(chains) == concat(SelectSeq(chains, nonEmpty))

Range(seq) == {seq[i] : i \in 1..Len(seq)}

\* the keys a strategy object stores, with their multiplicity
storedSeq(strategyName, m) ==
  IF strategyMode(strategyName) = "chaining" THEN flat(m.table)
  ELSE SelectSeq(m.table, isKey)

storedKeys(strategyName, m) == Range(storedSeq(strategyName, m))

tombstoneSlots(strategyName, m) ==
  IF strategyMode(strategyName) = "chaining" THEN 0
  ELSE Cardinality({i \in 1..Len(m.table) : m.table[i] = TOMBSTONE})

(***************************************************************************)
(* OpenAddressingStrategy and its three variants                           *)
(***************************************************************************)
\* constructor and clear()
newOpenAddressing(size) ==
  [size |-> size, table |-> [i \in 1..size |-> NULL], count |-> 0,
   tombstones |-> 0, thrown |-> NoError, rehashes |-> <<>>,
   highlights |-> <<>>]

\* createContext of the variant: the base slot, and the step of double hashing
createContext(strategyName, key, size) ==
  [base |-> primaryIndex(key, size),
   step |-> IF strategyName = "doubleHashing" THEN secondaryStep(key, size)
            ELSE 1]

\* probeInfo whose double-hashing step grows with the attempt
probeInfoGrowingStep(strategyName, context, attempt, size) ==
  IF strategyName = "quadraticProbing"
  THEN (context.base + attempt * attempt) % size
  ELSE IF strategyName = "doubleHashing"
  THEN (context.base + attempt * attempt * context.step) % size
  ELSE (context.base + attempt) % size

\* probeInfo of the variant: the slot of an attempt
probeInfo(strategyName, context, attempt, size) ==
  IF strategyName = "quadraticProbing"
  THEN (context.base + attempt * attempt) % size
  ELSE IF strategyName = "doubleHashing"
  THEN (context.base + attempt * context.step) % size
  ELSE (context.base + attempt) % size

\* `for (let attempt = 0; attempt < this.size; attempt += 1)` up to its first
\* return or break: the first attempt from `from` on among the `stopping`
\* ones, `to` when no attempt below `to` is
\* (the attempts are searched by halves, the lower half first)
RECURSIVE firstAttempt(_, _, _)

firstAttemptAbove(below, middle, to, stopping) ==
  IF below < middle THEN below ELSE firstAttempt(middle, to, stopping)

firstAttempt(from, to, stopping) ==
  IF from >= to THEN to
  ELSE IF from + 1 = to THEN (IF from \in stopping THEN from ELSE to)
  ELSE firstAttemptAbove(
         firstAttempt(from, (from + to) \div 2, stopping),
         (from + to) \div 2, to, stopping)

\* this.table[index] of an attempt
entryAt(strategyName, m, context, attempt) ==
  m.table[probeInfo(strategyName, context, attempt, m.size) + 1]

\* the attempts of a probe loop are run through ProbeBlock at a time
ProbeBlock == 16

\* a probe loop that returns at the first entry of `stopping`, below the
\* attempt `limit`: the attempt it returns at, `limit` if none
RECURSIVE stopWithin(_, _, _, _, _, _)
stopWithin(strategyName, m, context, stopping, attempt, limit) ==
  IF attempt >= limit THEN limit
  ELSE IF entryAt(strategyName, m, context, attempt) \in stopping
  THEN attempt
  ELSE stopWithin(strategyName, m, context, stopping, attempt + 1, limit)

RECURSIVE stopFrom(_, _, _, _, _)

stopAfter(strategyName, m, context, stopping, attempt, stop) ==
  IF stop < Min(attempt + ProbeBlock, m.size) THEN stop
  ELSE stopFrom(strategyName, m, context, stopping, attempt + ProbeBlock)

\* the whole loop from `attempt` on: the attempt it returns at, m.size when
\* the cycle ends
stopFrom(strategyName, m, context, stopping, attempt) ==
  IF attempt >= m.size THEN m.size
  ELSE stopAfter(
         strategyName, m, context, stopping, attempt,
         stopWithin(strategyName, m, context, stopping, attempt,
                    Min(attempt + ProbeBlock, m.size)))

\* the probe loop of search and remove below the attempt `limit`: the slot
\* that holds the key, -1 when an empty slot comes first, -2 at the limit
RECURSIVE findWithin(_, _, _, _, _, _)
findWithin(strategyName, m, context, key, attempt, limit) ==
  IF attempt >= limit THEN -2
  ELSE IF entryAt(strategyName, m, context, attempt) = key
  THEN probeInfo(strategyName, context, attempt, m.size)
  ELSE IF entryAt(strategyName, m, context, attempt) = NULL THEN -1
  ELSE findWithin(strategyName, m, context, key, attempt + 1, limit)

RECURSIVE findLoop(_, _, _, _, _)

findLoopAfter(strategyName, m, context, key, attempt, slot) ==
  IF slot # -2 THEN slot
  ELSE findLoop(strategyName, m, context, key, attempt + ProbeBlock)

\* the probe loop of search and remove: the slot that holds the key, -1
\* when an empty slot or the end of the cycle comes first
findLoop(strategyName, m, context, key, attempt) ==
  IF attempt >= m.size THEN -1
  ELSE findLoopAfter(
         strategyName, m, context, key, attempt,
         findWithin(strategyName, m, context, key, attempt,
                    Min(attempt + ProbeBlock, m.size)))

\* search once the key is normalised
searchKey(strategyName, m, key) ==
  IF findLoop(strategyName, m, createContext(strategyName, key, m.size),
              key, 0) # -1
  THEN [m |-> m, status |-> "found"]
  ELSE [m |-> m, status |-> "missing"]

\* highlights.push({ index, type })
highlight(index, type) == [index |-> index, type |-> type]

\* the 'probe' highlights of the attempts 0 .. attempts - 1 of a probe loop
probeHighlights(strategyName, context, size, attempts) ==
  [a \in 1..attempts |->
     highlight(probeInfo(strategyName, context, a - 1, size), "probe")]

\* the attempt the loop of search and of remove returns at: the first one
\* that meets the key or an empty slot, m.size when the cycle ends
findStop(strategyName, m, context, key) ==
  stopFrom(strategyName, m, context, {key, NULL}, 0)

\* the highlights of the loop of search and of remove that stops at `stop`:
\* one 'probe' an attempt, and `type` at the key
findHighlights(strategyName, m, context, key, stop, type) ==
  probeHighlights(strategyName, context, m.size, Min(stop + 1, m.size))
  \o (IF stop < m.size /\ entryAt(strategyName, m, context, stop) = key
      THEN <<highlight(probeInfo(strategyName, context, stop, m.size), type)>>
      ELSE <<>>)

\* what a call returns with its array of highlights; the array is local to
\* the call and the maintenance that follows the last push leaves it alone
highlighted(outcome, highlights) ==
  [outcome EXCEPT !.m.highlights = highlights]

\* the highlights of search or of remove on the strategy as the call finds
\* it
probed(strategyName, m, key, type) ==
  findHighlights(
    strategyName, m, createContext(strategyName, key, m.size), key,
    findStop(strategyName, m, createContext(strategyName, key, m.size), key),
    type)

search(strategyName, m, rawKey) ==
  highlighted(searchKey(strategyName, m, normaliseKey(rawKey)),
              probed(strategyName, m, normaliseKey(rawKey), "found"))

\* the loop of directInsert below the attempt `limit`: the first slot that
\* is free, -1 if none
RECURSIVE freeWithin(_, _, _, _, _)
freeWithin(strategyName, m, context, attempt, limit) ==
  IF attempt >= limit THEN -1
  ELSE IF ~isKey(entryAt(strategyName, m, context, attempt))
  THEN probeInfo(strategyName, context, attempt, m.size)
  ELSE freeWithin(strategyName, m, context, attempt + 1, limit)

RECURSIVE freeLoop(_, _, _, _)

freeLoopAfter(strategyName, m, context, attempt, slot) ==
  IF slot # -1 THEN slot
  ELSE freeLoop(strategyName, m, context, attempt + ProbeBlock)

\* the loop of directInsert: the first slot of the cycle that is free, -1 if
\* none
freeLoop(strategyName, m, context, attempt) ==
  IF attempt >= m.size THEN -1
  ELSE freeLoopAfter(
         strategyName, m, context, attempt,
         freeWithin(strategyName, m, context, attempt,
                    Min(attempt + ProbeBlock, m.size)))

\* directInsert that leaves count as it is
directInsertAtUncounted(m, key, index) ==
  IF index = -1 THEN [m EXCEPT !.thrown = RehashFailed]
  ELSE [m EXCEPT !.table[index + 1] = key,
                 !.tombstones =
                   IF m.table[index + 1] = TOMBSTONE THEN @ - 1 ELSE @]

\* the body of the loop of directInsert at the free slot, the throw without
directInsertAt(m, key, index) ==
  IF index = -1 THEN [m EXCEPT !.thrown = RehashFailed]
  ELSE [m EXCEPT !.table[index + 1] = key,
                 !.count = @ + 1,
                 !.tombstones =
                   IF m.table[index + 1] = TOMBSTONE THEN @ - 1 ELSE @]

\* directInsert that starts its loop at the second attempt
directInsertFromNext(strategyName, m, key) ==
  directInsertAt(
    m, key,
    freeLoop(strategyName, m, createContext(strategyName, key, m.size), 1))

directInsert(strategyName, m, key) ==
  directInsertAt(
    m, key,
    freeLoop(strategyName, m, createContext(strategyName, key, m.size), 0))

\* directInsert of entries[first], ..., entries[last] in turn, left by a
\* throw; the range is halved so that a long list nests no deeper than its
\* logarithm
RECURSIVE reinsertRange(_, _, _, _, _)
reinsertRange(strategyName, m, entries, first, last) ==
  IF m.thrown # NoError \/ first > last THEN m
  ELSE IF first = last THEN directInsert(strategyName, m, entries[first])
  ELSE reinsertRange(
         strategyName,
         reinsertRange(strategyName, m, entries, first,
                       (first + last) \div 2),
         entries, ((first + last) \div 2) + 1, last)

\* entries.forEach((entry) => this.directInsert(entry)), left by a throw
reinsertAll(strategyName, m, entries) ==
  reinsertRange(strategyName, m, entries, 1, Len(entries))

observeRehash(strategyName, before, after, found) ==
  [from |-> before.size, to |-> after.size,
   tombstonesBefore |-> tombstoneSlots(strategyName, before),
   before |-> storedKeys(strategyName, before),
   after |-> storedKeys(strategyName, after),
   found |-> found,
   tombstones |-> after.tombstones,
   tombstoneSlots |-> tombstoneSlots(strategyName, after),
   completed |-> after.thrown = NoError,
   forced |-> FALSE]

\* the reset of rehash without `this.tombstones = 0`
rehashResetKeepingTombstones(m, newSize) ==
  [m EXCEPT !.size = newSize, !.table = [i \in 1..newSize |-> NULL],
            !.count = 0]

rehashReset(m, newSize) ==
  [m EXCEPT !.size = newSize, !.table = [i \in 1..newSize |-> NULL],
            !.count = 0, !.tombstones = 0]

\* the rebuilt table with the rehash observed
rehashed(strategyName, m, rebuilt) ==
  [rebuilt EXCEPT !.rehashes =
     Append(@, observeRehash(
                 strategyName, m, rebuilt,
                 {k \in storedKeys(strategyName, m) :
                    searchKey(strategyName, rebuilt, k).status = "found"}))]

rehash(strategyName, m, newSize) ==
  rehashed(strategyName, m,
           reinsertAll(strategyName, rehashReset(m, newSize),
                       SelectSeq(m.table, isKey)))

ensureCapacityBeforeInsert(strategyName, m) ==
  IF m.count * 100 > 68 * m.size
  THEN IF nextPrime(ceilTimes16(m.size)) # m.size
       THEN rehash(strategyName, m, nextPrime(ceilTimes16(m.size)))
       ELSE m
  ELSE IF (m.count + m.tombstones) * 100 > 85 * m.size
          /\ m.tombstones * 100 > 15 * m.size
       THEN rehash(strategyName, m, m.size)
       ELSE m

\* maintainAfterInsert that grows above a load factor of 0.8
maintainAfterInsertLate(strategyName, m) ==
  IF m.count * 100 > 80 * m.size /\ nextPrime(ceilTimes135(m.size)) # m.size
  THEN rehash(strategyName, m, nextPrime(ceilTimes135(m.size)))
  ELSE IF (m.count + m.tombstones) * 100 > 88 * m.size
          /\ m.tombstones * 100 > 18 * m.size
       THEN rehash(strategyName, m, m.size)
       ELSE m

maintainAfterInsert(strategyName, m) ==
  IF m.count * 100 > 72 * m.size /\ nextPrime(ceilTimes135(m.size)) # m.size
  THEN rehash(strategyName, m, nextPrime(ceilTimes135(m.size)))
  ELSE IF (m.count + m.tombstones) * 100 > 88 * m.size
          /\ m.tombstones * 100 > 18 * m.size
       THEN rehash(strategyName, m, m.size)
       ELSE m

\* the size a removal shrinks the table to
shrinkTarget(m) == previousPrime(Max(MIN_TABLE_SIZE, floorDiv16(m.size)))

maintainAfterRemoval(strategyName, m) ==
  IF m.size > MIN_TABLE_SIZE
  THEN IF m.count > 0 /\ m.count * 100 < 30 * m.size
          /\ shrinkTarget(m) < m.size
       THEN rehash(strategyName, m, shrinkTarget(m))
       ELSE IF m.tombstones * 100 > 25 * m.size /\ m.tombstones > m.count
            THEN rehash(strategyName, m, m.size)
            ELSE m
  ELSE m

\* the outcome of a call that an Error left
thrownResult(m) == [m |-> m, status |-> "thrown"]

\* what a mutating call returns after its maintenance, unless that threw
outcomeOf(kept, status) ==
  IF kept.thrown # NoError THEN thrownResult(kept)
  ELSE [m |-> kept, status |-> status]

\* this.table[target] = key; this.count += 1; a reused tombstone is counted
\* off; then maintainAfterInsert
\* the same without `if (previous === TOMBSTONE) this.tombstones -= 1`
placeAtKeepingTombstones(strategyName, m, key, target) ==
  outcomeOf(
    maintainAfterInsert(
      strategyName,
      [m EXCEPT !.table[target + 1] = key, !.count = @ + 1]),
    "inserted")

placeAt(strategyName, m, key, target) ==
  outcomeOf(
    maintainAfterInsert(
      strategyName,
      [m EXCEPT !.table[target + 1] = key,
                !.count = @ + 1,
                !.tombstones =
                  IF m.table[target + 1] = TOMBSTONE THEN @ - 1 ELSE @]),
    "inserted")

\* the target of insert that takes the empty slot the loop stopped at and a
\* tombstone only when there is none
insertTargetAtEmpty(strategyName, m, context, firstTombstone, stop, tombstone) ==
  IF stop < m.size THEN probeInfo(strategyName, context, stop, m.size)
  ELSE IF firstTombstone # -1 THEN firstTombstone
  ELSE IF tombstone < stop
  THEN probeInfo(strategyName, context, tombstone, m.size)
  ELSE -1

\* the target of insert when its probe loop met no key: the first tombstone
\* seen (`tombstone` is `stop` when there was none), else the empty slot the
\* loop stopped at, else -1: the table is saturated
insertTarget(strategyName, m, context, firstTombstone, stop, tombstone) ==
  IF firstTombstone # -1 THEN firstTombstone
  ELSE IF tombstone < stop
  THEN probeInfo(strategyName, context, tombstone, m.size)
  ELSE IF stop < m.size THEN probeInfo(strategyName, context, stop, m.size)
  ELSE -1

\* what the probe loop of insert leaves at the attempt it stops at
insertStop(strategyName, m, context, key, attempt, firstTombstone, stop) ==
  IF stop < m.size /\ entryAt(strategyName, m, context, stop) = key
  THEN [found |-> TRUE, attempts |-> stop + 1,
        target |-> probeInfo(strategyName, context, stop, m.size)]
  ELSE [found |-> FALSE, attempts |-> Min(stop + 1, m.size),
        target |->
          insertTarget(
            strategyName, m, context, firstTombstone, stop,
            firstAttempt(attempt, stop,
                         {a \in attempt..(stop - 1) :
                            entryAt(strategyName, m, context, a) = TOMBSTONE}))]

\* the probe loop of insert without `if (entry === key)`
insertLoopBlind(strategyName, m, context, key, attempt, firstTombstone) ==
  insertStop(strategyName, m, context, key, attempt, firstTombstone,
             stopFrom(strategyName, m, context, {NULL}, attempt))

\* the probe loop of insert, and what follows it when the cycle ends:
\* [found, target], target = -1 when the table is saturated
insertLoop(strategyName, m, context, key, attempt, firstTombstone) ==
  insertStop(strategyName, m, context, key, attempt, firstTombstone,
             stopFrom(strategyName, m, context, {key, NULL}, attempt))

RECURSIVE insertAt(_, _, _, _)

\* insert after the forced growth of a saturated table: insert again
insertGrown(strategyName, grown, key, depth) ==
  IF grown.thrown # NoError THEN thrownResult(grown)
  ELSE insertAt(strategyName, grown, key, depth + 1)

\* the rehash just observed was the one a saturated table forces
markForced(grown) ==
  [grown EXCEPT !.rehashes[Len(grown.rehashes)].forced = TRUE]

\* this.rehash(nextPrime(Math.ceil(this.size * 1.6)), 'Table was saturated.
\* ...')
forcedGrowth(strategyName, m) ==
  markForced(rehash(strategyName, m, nextPrime(ceilTimes16(m.size))))

\* the highlights of insert: one 'probe' an attempt of its loop, and `type`
\* at the target
insertHighlights(strategyName, m, key, probe, type) ==
  probeHighlights(strategyName, createContext(strategyName, key, m.size),
                  m.size, probe.attempts)
  \o <<highlight(probe.target, type)>>

\* insert after its probe loop
insertProbed(strategyName, m, key, probe, depth) ==
  IF probe.found
  THEN highlighted([m |-> m, status |-> "duplicate"],
                   insertHighlights(strategyName, m, key, probe, "found"))
  ELSE IF probe.target # -1
  THEN highlighted(placeAt(strategyName, m, key, probe.target),
                   insertHighlights(strategyName, m, key, probe, "placed"))
  ELSE insertGrown(strategyName, forcedGrowth(strategyName, m), key, depth)

\* insert after ensureCapacityBeforeInsert
insertEnsured(strategyName, m, key, depth) ==
  IF m.thrown # NoError THEN thrownResult(m)
  ELSE insertProbed(
         strategyName, m, key,
         insertLoop(strategyName, m, createContext(strategyName, key, m.size),
                    key, 0, -1),
         depth)

\* insert at a depth of the call stack, which overflows at StackLimit
insertAt(strategyName, m0, rawKey, depth) ==
  IF depth >= StackLimit
  THEN thrownResult([m0 EXCEPT !.thrown = StackExhausted])
  ELSE insertEnsured(strategyName,
                     ensureCapacityBeforeInsert(
                       strategyName, [m0 EXCEPT !.highlights = <<>>]),
                     normaliseKey(rawKey), depth)

insert(strategyName, m, rawKey) == insertAt(strategyName, m, rawKey, 0)

\* remove that marks the slot and counts the tombstone, leaving count
removeAtUncounted(strategyName, m, index) ==
  IF index = -1 THEN [m |-> m, status |-> "missing"]
  ELSE outcomeOf(
         maintainAfterRemoval(
           strategyName,
           [m EXCEPT !.table[index + 1] = TOMBSTONE, !.tombstones = @ + 1]),
         "removed")

\* remove that empties the slot instead of marking it
removeAtClearing(strategyName, m, index) ==
  IF index = -1 THEN [m |-> m, status |-> "missing"]
  ELSE outcomeOf(
         maintainAfterRemoval(
           strategyName,
           [m EXCEPT !.table[index + 1] = NULL, !.count = @ - 1]),
         "removed")

\* remove once the probe loop has met the key at `index`, or has not (-1)
removeAt(strategyName, m, index) ==
  IF index = -1 THEN [m |-> m, status |-> "missing"]
  ELSE outcomeOf(
         maintainAfterRemoval(
           strategyName,
           [m EXCEPT !.table[index + 1] = TOMBSTONE,
                     !.count = @ - 1,
                     !.tombstones = @ + 1]),
         "removed")

removeKey(strategyName, m, key) ==
  highlighted(
    removeAt(strategyName, m,
             findLoop(strategyName, m,
                      createContext(strategyName, key, m.size), key, 0)),
    probed(strategyName, m, key, "placed"))

remove(strategyName, m, rawKey) ==
  removeKey(strategyName, m, normaliseKey(rawKey))

snapshot(m) ==
  [i \in 1..Len(m.table) |->
     IF m.table[i] = NULL THEN [index |-> i - 1, state |-> "empty", items |-> <<>>]
     ELSE IF m.table[i] = TOMBSTONE
     THEN [index |-> i - 1, state |-> "tombstone", items |-> <<>>]
     ELSE [index |-> i - 1, state |-> "value", items |-> <<m.table[i]>>]]

(***************************************************************************)
(* SeparateChainingStrategy                                                *)
(***************************************************************************)
\* constructor and clear(); the class has no tombstones field, kept at 0
newSeparateChaining(size) ==
  [size |-> size, table |-> [i \in 1..size |-> <<>>], count |-> 0,
   tombstones |-> 0, thrown |-> NoError, rehashes |-> <<>>,
   highlights |-> <<>>]

\* insertInternal that appends every key to the chain of slot 0
chainInsertInternalFirstBucket(m, key) ==
  [m EXCEPT !.table[1] = Append(@, key), !.count = @ + 1]

chainInsertInternal(m, key) ==
  [m EXCEPT !.table[primaryIndex(key, m.size) + 1] = Append(@, key),
            !.count = @ + 1]

RECURSIVE chainReinsertAll(_, _)
chainReinsertAll(m, entries) ==
  IF entries = <<>> THEN m
  ELSE chainReinsertAll(chainInsertInternal(m, Head(entries)), Tail(entries))

\* bucket.indexOf(key), from 0, -1 when absent
indexOf(bucket, key) ==
  IF \A i \in 1..Len(bucket) : bucket[i] # key THEN -1
  ELSE SetMin({i \in 1..Len(bucket) : bucket[i] = key}) - 1

\* search once the key is normalised
chainSearchKey(m, key) ==
  IF indexOf(m.table[primaryIndex(key, m.size) + 1], key) = -1
  THEN [m |-> m, status |-> "missing"]
  ELSE [m |-> m, status |-> "found"]

\* the highlights of a chaining call: the bucket probed, and `type` at the
\* bucket when the key is in it (search, remove) or is appended to it
chainHighlights(index, type) ==
  IF type = "" THEN <<highlight(index, "probe")>>
  ELSE <<highlight(index, "probe"), highlight(index, type)>>

chainSearchAt(m, key, index) ==
  highlighted(
    chainSearchKey(m, key),
    chainHighlights(index,
                    IF indexOf(m.table[index + 1], key) = -1 THEN ""
                    ELSE "found"))

chainSearch(m, rawKey) ==
  chainSearchAt(m, normaliseKey(rawKey),
                primaryIndex(normaliseKey(rawKey), m.size))

\* the rebuilt table with the rehash observed
chainRehashed(m, rebuilt) ==
  [rebuilt EXCEPT !.rehashes =
     Append(@, observeRehash(
                 "separateChaining", m, rebuilt,
                 {k \in storedKeys("separateChaining", m) :
                    chainSearchKey(rebuilt, k).status = "found"}))]

chainRehash(m, newSize) ==
  chainRehashed(
    m,
    chainReinsertAll([m EXCEPT !.size = newSize,
                               !.table = [i \in 1..newSize |-> <<>>],
                               !.count = 0],
                     flat(m.table)))

maxChainOf(m) ==
  CHOOSE n \in {Len(m.table[i]) : i \in 1..Len(m.table)} :
    \A i \in 1..Len(m.table) : Len(m.table[i]) <= n

\* maintainAfterInsert that grows the table as soon as it holds a key per
\* slot
chainMaintainAfterInsertAtFull(m) ==
  IF (m.count >= m.size \/ maxChainOf(m) > 4)
     /\ nextPrime(ceilTimes16(m.size)) # m.size
  THEN chainRehash(m, nextPrime(ceilTimes16(m.size)))
  ELSE m

\* maintainAfterInsert that looks at the load factor alone
chainMaintainAfterInsertByLoad(m) ==
  IF m.count * 100 > 115 * m.size
     /\ nextPrime(ceilTimes16(m.size)) # m.size
  THEN chainRehash(m, nextPrime(ceilTimes16(m.size)))
  ELSE m

chainMaintainAfterInsert(m) ==
  IF (m.count * 100 > 115 * m.size \/ maxChainOf(m) > 4)
     /\ nextPrime(ceilTimes16(m.size)) # m.size
  THEN chainRehash(m, nextPrime(ceilTimes16(m.size)))
  ELSE m

\* the size a removal shrinks the chained table to
chainShrinkTarget(m) ==
  previousPrime(Max(MIN_TABLE_SIZE, floorDiv15(m.size)))

chainMaintainAfterRemoval(m) ==
  IF m.size > MIN_TABLE_SIZE /\ m.count * 100 < 45 * m.size
     /\ chainShrinkTarget(m) < m.size
  THEN chainRehash(m, chainShrinkTarget(m))
  ELSE m

\* insert once the key is normalised and its bucket known
chainInsertAt(m, key, index) ==
  IF indexOf(m.table[index + 1], key) # -1
  THEN highlighted([m |-> m, status |-> "duplicate"],
                   chainHighlights(index, "found"))
  ELSE highlighted(
         [m |-> chainMaintainAfterInsert(
                  [m EXCEPT !.table[index + 1] = Append(@, key),
                            !.count = @ + 1]),
          status |-> "inserted"],
         chainHighlights(index, "placed"))

chainInsertKey(m, key) == chainInsertAt(m, key, primaryIndex(key, m.size))

chainInsert(m, rawKey) == chainInsertKey(m, normaliseKey(rawKey))

\* bucket.splice(position, 1)
splice1(bucket, position) ==
  SubSeq(bucket, 1, position) \o SubSeq(bucket, position + 2, Len(bucket))

\* remove once the bucket and the position of the key in it are known
chainRemoveAt(m, index, position) ==
  IF position = -1
  THEN highlighted([m |-> m, status |-> "missing"],
                   chainHighlights(index, ""))
  ELSE highlighted(
         [m |-> chainMaintainAfterRemoval(
                  [m EXCEPT !.table[index + 1] = splice1(@, position),
                            !.count = @ - 1]),
          status |-> "removed"],
         chainHighlights(index, "placed"))

chainRemoveKey(m, key) ==
  chainRemoveAt(m, primaryIndex(key, m.size),
                indexOf(m.table[primaryIndex(key, m.size) + 1], key))

chainRemove(m, rawKey) == chainRemoveKey(m, normaliseKey(rawKey))

chainSnapshot(m) ==
  [i \in 1..Len(m.table) |->
     [index |-> i - 1,
      state |-> IF Len(m.table[i]) = 0 THEN "emptyChain" ELSE "chain",
      items |-> m.table[i]]]

(***************************************************************************)
(* strategyFactories and the calls HashingController makes on the strategy *)
(***************************************************************************)
strategyFactories(strategyName, size) ==
  IF strategyName = "separateChaining" THEN newSeparateChaining(size)
  ELSE newOpenAddressing(size)

strategyInsert(strategyName, m, rawKey) ==
  IF strategyName = "separateChaining" THEN chainInsert(m, rawKey)
  ELSE insert(strategyName, m, rawKey)

\* search that runs the prologue of insert first
strategySearchEnsuring(strategyName, m, rawKey) ==
  IF strategyName = "separateChaining" THEN chainSearch(m, rawKey)
  ELSE search(strategyName, ensureCapacityBeforeInsert(strategyName, m),
              rawKey)

strategySearch(strategyName, m, rawKey) ==
  IF strategyName = "separateChaining" THEN chainSearch(m, rawKey)
  ELSE search(strategyName, m, rawKey)

strategyRemove(strategyName, m, rawKey) ==
  IF strategyName = "separateChaining" THEN chainRemove(m, rawKey)
  ELSE remove(strategyName, m, rawKey)

strategySnapshot(strategyName, m) ==
  IF strategyName = "separateChaining" THEN chainSnapshot(m)
  ELSE snapshot(m)

(***************************************************************************)
(* HashingController                                                       *)
(*                                                                         *)
(* strategyName, tableSize: the controller's fields; size, table, count,   *)
(* tombstones: the fields of this.strategy.  sizeInput.value is not a      *)
(* variable: every handler leaves it equal to tableSize.  What render()    *)
(* draws is strategySnapshot of the strategy, a function of these fields.  *)
(*                                                                         *)
(* A handler is two steps: the call that changes the strategy, which       *)
(* leaves its outcome in `result`, then Render (or Uncaught when the call  *)
(* threw).  JavaScript runs a handler to completion, so no other handler   *)
(* starts while pc is not "idle": the two steps are one handler.           *)
(*                                                                         *)
(* live observes the run: the keys whose last completed mutation was an    *)
(* insert.  arrival observes a chaining run: the watched keys the table    *)
(* holds, in the order of their inserts.                                   *)
(***************************************************************************)
VARIABLES strategyName, tableSize, size, table, count, tombstones, pc,
          result, live, arrival

strategyVars == <<size, table, count, tombstones>>
vars == <<strategyName, tableSize, size, table, count, tombstones, pc,
          result, live, arrival>>

\* this.strategy as the handlers find it
strategy ==
  [size |-> size, table |-> table, count |-> count,
   tombstones |-> tombstones, thrown |-> NoError, rehashes |-> <<>>,
   highlights |-> <<>>]

NoResult ==
  [op |-> "none", key |-> <<>>, status |-> "", thrown |-> NoError,
   rehashes |-> <<>>, highlights |-> <<>>]

\* `Number(this.sizeInput.value) || fallback`: 0 and NaN are falsy
orFallback(value, fallback) ==
  IF value.kind = "nan" \/ (value.kind = "int" /\ value.v = 0)
  THEN Int_(fallback) ELSE value

\* the constructor, for the strategy and the size the page starts with
construct(names, values) ==
  \E name \in names, value \in values :
    LET m == strategyFactories(
               name,
               normaliseSizeForStrategy(orFallback(value, DEFAULT_SIZE), name))
    IN  /\ strategyName = name
        /\ tableSize = m.size
        /\ size = m.size
        /\ table = m.table
        /\ count = m.count
        /\ tombstones = m.tombstones
        /\ pc = "idle"
        /\ result = NoResult
        /\ live = {}
        /\ arrival = <<>>

Init == construct(Strategies, SizeInputs)

\* arrival after a call on `key` that returned `status`
arrived(order, key, status) ==
  IF key \notin WatchedKeys THEN order
  ELSE IF status = "inserted" THEN Append(order, key)
  ELSE IF status = "removed" THEN SelectSeq(order, LAMBDA k : k # key)
  ELSE order

\* handleAction up to the strategy call, which returns `outcome` or throws
handleAction(op, rawKey, outcome) ==
  LET m == outcome.m
      key == normaliseKey(rawKey)
  IN  /\ pc = "idle"
      /\ trim(rawKey) # <<>>
      /\ size' = m.size
      /\ table' = m.table
      /\ count' = m.count
      /\ tombstones' = m.tombstones
      /\ pc' = IF m.thrown = NoError THEN "returned" ELSE "thrown"
      /\ result' = [op |-> op, key |-> key, status |-> outcome.status,
                    thrown |-> m.thrown, rehashes |-> m.rehashes,
                    highlights |-> IF m.thrown = NoError THEN m.highlights
                                   ELSE <<>>]
      /\ live' = IF outcome.status = "inserted" THEN live \cup {key}
                 ELSE IF outcome.status = "removed" THEN live \ {key}
                 ELSE live
      /\ arrival' = IF strategyName = "separateChaining"
                    THEN arrived(arrival, key, outcome.status)
                    ELSE arrival
      /\ UNCHANGED <<strategyName, tableSize>>

Insert(rawKey) ==
  handleAction("insert", rawKey,
               strategyInsert(strategyName, strategy, trim(rawKey)))

Search(rawKey) ==
  handleAction("search", rawKey,
               strategySearch(strategyName, strategy, trim(rawKey)))

Remove(rawKey) ==
  handleAction("remove", rawKey,
               strategyRemove(strategyName, strategy, trim(rawKey)))

\* what a reset finds in the table it replaces
replaced == IF count > 0 \/ tombstones > 0 THEN "discarded" ELSE "empty"

\* resetTable that keeps the strategy object when neither the strategy nor
\* the size changes
resetTableKeeping(op, name, newSize) ==
  LET m == IF name = strategyName /\ newSize = size THEN strategy
           ELSE strategyFactories(name, newSize)
  IN  /\ pc = "idle"
      /\ strategyName' = name
      /\ tableSize' = newSize
      /\ size' = m.size
      /\ table' = m.table
      /\ count' = m.count
      /\ tombstones' = m.tombstones
      /\ pc' = "returned"
      /\ result' = [NoResult EXCEPT !.op = op, !.status = replaced]
      /\ live' = {}
      /\ arrival' = <<>>

\* this.strategy = strategyFactories[this.strategyName](this.tableSize); the
\* status of the result observes whether the old table held anything
resetTable(op, name, newSize) ==
  LET m == strategyFactories(name, newSize)
  IN  /\ pc = "idle"
      /\ strategyName' = name
      /\ tableSize' = newSize
      /\ size' = m.size
      /\ table' = m.table
      /\ count' = m.count
      /\ tombstones' = m.tombstones
      /\ pc' = "returned"
      /\ result' = [NoResult EXCEPT !.op = op, !.status = replaced]
      /\ live' = {}
      /\ arrival' = <<>>

\* the reset button
Reset == resetTable("reset", strategyName, tableSize)

\* the strategy select changes to another strategy
SwitchStrategy(name) ==
  /\ name # strategyName
  /\ resetTable("switchStrategy", name,
                normaliseSizeForStrategy(Int_(tableSize), name))

\* the size input changes
SetSize(value) ==
  resetTable("setSize", strategyName,
             normaliseSizeForStrategy(orFallback(value, tableSize),
                                      strategyName))

\* render(): the controller takes the strategy's size; drawing the snapshot,
\* playAnimation and writeLog end the handler
Render ==
  /\ pc = "returned"
  /\ tableSize' = size
  /\ pc' = "idle"
  /\ result' = NoResult
  /\ UNCHANGED <<strategyName, size, table, count, tombstones, live,
                 arrival>>

\* the Error of the strategy call leaves handleAction before render()
Uncaught ==
  /\ pc = "thrown"
  /\ pc' = "idle"
  /\ result' = NoResult
  /\ UNCHANGED <<strategyName, tableSize, size, table, count, tombstones,
                 live, arrival>>

Next ==
  \/ \E rawKey \in RawKeys : Insert(rawKey)
  \/ \E rawKey \in RawKeys : Search(rawKey)
  \/ \E rawKey \in RawKeys : Remove(rawKey)
  \/ Reset
  \/ \E name \in Strategies : SwitchStrategy(name)
  \/ \E value \in SizeInputs : SetSize(value)
  \/ Render
  \/ Uncaught

Spec == Init /\ [][Next]_vars

\* the same controller when the size input also takes a size above the
\* maximum; the calls are those that change the table, since search leaves
\* it as it is
InitWide == construct(Strategies, WideSizeInputs)

NextWide ==
  \/ \E rawKey \in RawKeys : Insert(rawKey)
  \/ \E rawKey \in RawKeys : Remove(rawKey)
  \/ Reset
  \/ \E name \in Strategies : SwitchStrategy(name)
  \/ \E value \in WideSizeInputs : SetSize(value)
  \/ Render
  \/ Uncaught

SpecWide == InitWide /\ [][NextWide]_vars

\* the controller at the size the page starts with, fed the crowding keys
\* under chaining and quadratic probing
InitCompaction == construct(CompactionStrategies, DefaultSizeInputs)

NextCompaction ==
  \/ \E rawKey \in CompactionKeys : Insert(rawKey)
  \/ \E rawKey \in CompactionKeys : Remove(rawKey)
  \/ Reset
  \/ \E name \in CompactionStrategies : SwitchStrategy(name)
  \/ \E value \in DefaultSizeInputs : SetSize(value)
  \/ Render
  \/ Uncaught

SpecCompaction == InitCompaction /\ [][NextCompaction]_vars

\* the strategy after insert of keys[first], ..., keys[last] in turn, one
\* handleAction each; the range is halved as in reinsertRange
RECURSIVE insertRange(_, _, _, _, _)
insertRange(name, m, keys, first, last) ==
  IF m.thrown # NoError \/ first > last THEN m
  ELSE IF first = last
  THEN [strategyInsert(name, m, keys[first]).m EXCEPT !.rehashes = <<>>,
                                                      !.highlights = <<>>]
  ELSE insertRange(name,
                   insertRange(name, m, keys, first, (first + last) \div 2),
                   keys, ((first + last) \div 2) + 1, last)

\* the controller between two handlers, its strategy being m
idleWith(name, m, keys) ==
  /\ strategyName = name
  /\ tableSize = m.size
  /\ size = m.size
  /\ table = m.table
  /\ count = m.count
  /\ tombstones = m.tombstones
  /\ pc = "idle"
  /\ result = NoResult
  /\ live = keys
  /\ arrival = <<>>

\* the controller after linear probing was chosen, the size set above the
\* maximum and the 199 saturating keys inserted: the table is full
InitSaturated ==
  idleWith("linearProbing",
           insertRange("linearProbing",
                       strategyFactories(
                         "linearProbing",
                         normaliseSizeForStrategy(Int_(200), "linearProbing")),
                       SaturatingKeys, 1, Len(SaturatingKeys)),
           {SaturatingKeys[i] : i \in DOMAIN SaturatingKeys})

NextSaturated ==
  \/ \E rawKey \in SaturatedKeys : Insert(rawKey)
  \/ \E rawKey \in SaturatedKeys : Search(rawKey)
  \/ \E rawKey \in SaturatedKeys : Remove(rawKey)
  \/ Reset
  \/ \E name \in SaturatedStrategies : SwitchStrategy(name)
  \/ \E value \in SaturatedSizeInputs : SetSize(value)
  \/ Render
  \/ Uncaught

SpecSaturated == InitSaturated /\ [][NextSaturated]_vars

\* the controller at every size of the range, under chaining and double
\* hashing; no call throws on these tables
InitStep == construct(StepStrategies, StepSizeInputs)

NextStep ==
  \/ \E rawKey \in StepKeys : Insert(rawKey)
  \/ \E rawKey \in StepKeys : Search(rawKey)
  \/ \E rawKey \in StepKeys : Remove(rawKey)
  \/ Reset
  \/ \E name \in StepStrategies : SwitchStrategy(name)
  \/ \E value \in StepSizeInputs : SetSize(value)
  \/ Render

SpecStep == InitStep /\ [][NextStep]_vars

(***************************************************************************)
(* Properties                                                              *)
(***************************************************************************)
openAddressing == strategyMode(strategyName) = "open"

\* the call of the running handler has returned or thrown
called(op) == pc # "idle" /\ result.op = op

\* search as the next call would answer it
finds(key) ==
  strategySearch(strategyName, strategy, key).status = "found"

occupiedSlots ==
  IF openAddressing
  THEN Cardinality({i \in 1..Len(table) : isKey(table[i])})
  ELSE Len(flat(table))

\* primality by definition, not by isPrime
IsPrimeNumber(n) == n > 1 /\ \A d \in 2..(n - 1) : n % d # 0

rehashesOf(r) == {r.rehashes[i] : i \in 1..Len(r.rehashes)}

\* C1: in every strategy and after any sequence of insert, search and remove,
\* with every rehash they trigger, each key is stored at most once in the
\* whole table: never in two slots, never twice in one chain.
C1_NoDuplicateKey ==
  LET stored == storedSeq(strategyName, strategy)
  IN  \A i, j \in 1..Len(stored) : stored[i] = stored[j] => i = j

\* an insert that rehashed has returned and the table holds several keys
C1_Witness ==
  /\ called("insert") /\ result.status = "inserted"
  /\ result.rehashes # <<>>
  /\ count >= 4

\* C2: after any sequence of inserts and removes search(K) returns found
\* exactly when K is live, that is when the last completed mutation of K was
\* an insert, for every key K.
C2_SearchFindsExactlyLive == \A key \in Keys : finds(key) <=> key \in live

\* C3: count is the number of occupied slots (open addressing) or of chain
\* entries (chaining), and the number of keys search finds.
C3_CountAccurate ==
  /\ count = occupiedSlots
  /\ count = Cardinality({key \in Keys : finds(key)})

\* a remove has left a tombstone beside live keys
C3_Witness ==
  /\ called("remove") /\ result.status = "removed"
  /\ openAddressing /\ tombstones >= 1 /\ count >= 2

\* C4: right after insert(K) search(K) yields found, right after remove(K)
\* search(K) yields missing, whatever rehash the call triggered.
C4_RoundTrip ==
  /\ called("insert") => finds(result.key)
  /\ called("remove") => ~finds(result.key)

\* C5: every rehash (growth, shrink, compaction; chaining and each open
\* addressing variant) leaves the set of stored keys unchanged, and search
\* finds each of them afterwards.
C5_RehashPreservesKeys ==
  \A r \in rehashesOf(result) : r.after = r.before /\ r.found = r.before

\* C6: right after an open-addressing rehash completes, tombstones = 0 and no
\* slot holds a tombstone.
C6_RehashClearsTombstones ==
  openAddressing =>
    \A r \in rehashesOf(result) :
      r.completed => r.tombstones = 0 /\ r.tombstoneSlots = 0

\* a rehash of a table that held tombstones and keys has completed
C6_Witness ==
  /\ openAddressing
  /\ \E r \in rehashesOf(result) :
       r.completed /\ r.tombstonesBefore >= 2 /\ r.before # {}

\* C7: the size of a linear, quadratic or double hashing table is prime in
\* every reachable state.
C7_PrimeSize == openAddressing => IsPrimeNumber(size)

\* an open-addressing table has shrunk to a size other than the minimum
C7_Witness ==
  /\ openAddressing /\ called("remove")
  /\ \E r \in rehashesOf(result) : r.to < r.from /\ r.to > MIN_TABLE_SIZE

\* C8: in every reachable state of an open-addressing table,
\* count + tombstones <= size.
C8_OccupancyWithinSize == openAddressing => count + tombstones <= size

\* an insert has left one free slot in a table that holds a tombstone
C8_Witness ==
  /\ openAddressing /\ called("insert") /\ result.status = "inserted"
  /\ tombstones >= 1 /\ count + tombstones = size - 1

\* C9: the size of the table stays within [3, 199] in every reachable state,
\* whatever size was requested, for all four strategies.
C9_SizeInRange ==
  /\ MIN_TABLE_SIZE <= size /\ size <= MAX_TABLE_SIZE
  /\ Len(table) = size

\* a table of the maximum size has shrunk
C9_Witness ==
  /\ called("remove")
  /\ \E r \in rehashesOf(result) : r.from = MAX_TABLE_SIZE /\ r.to < r.from

\* C10: search, and the snapshot render() draws, leave size, table, count and
\* tombstones as they were; no rehash happens during search.
C10_SearchLeavesStateUnchanged ==
  [][/\ (pc = "idle" /\ result'.op = "search") =>
          (UNCHANGED strategyVars /\ result'.rehashes = <<>>)
     /\ (pc = "returned" /\ pc' = "idle") => UNCHANGED strategyVars]_vars

\* a search has returned on a table so loaded that an insert would grow it
C10_Witness ==
  /\ called("search") /\ result.status = "found"
  /\ openAddressing /\ count * 100 > 68 * size

\* C11: an insert that returns duplicate mutates nothing: size, every slot or
\* chain, count and tombstones are after the call what they were before it.
C11_DuplicateInsertNoMutation ==
  [][(pc = "idle" /\ result'.op = "insert" /\ result'.status = "duplicate")
       => UNCHANGED strategyVars]_vars

\* C12: every insert, search and remove, with any rehash it triggers,
\* terminates and returns a result with a status from every reachable state,
\* the full table of the maximum size included: no call ends by an Error.
C12_EveryCallReturns ==
  called("insert") \/ called("search") \/ called("remove") =>
    pc = "returned" /\ result.status \in {"inserted", "duplicate", "found",
                                          "missing", "removed"}

\* two keys of bucket b stored in turn by linear probing: the first in slot
\* b, the second in slot (b + 1) mod size
collided(b) ==
  /\ strategyName = "linearProbing"
  /\ table[b + 1] \notin {NULL, TOMBSTONE}
  /\ table[((b + 1) % size) + 1] \notin {NULL, TOMBSTONE}
  /\ primaryIndex(table[b + 1], size) = b
  /\ primaryIndex(table[((b + 1) % size) + 1], size) = b

\* remove of the first of the two keys of bucket b, from the state before it
removesFirst(b) ==
  /\ pc = "idle"
  /\ collided(b)
  /\ result'.op = "remove"
  /\ result'.status = "removed"
  /\ result'.key = table[b + 1]

\* the key is found by search in the state after the step
foundAfter(key) ==
  strategySearch(strategyName',
                 [size |-> size', table |-> table', count |-> count',
                  tombstones |-> tombstones', thrown |-> NoError,
                  rehashes |-> <<>>, highlights |-> <<>>],
                 key).status = "found"

\* C13 as stated: in a linear-probing table holding two keys of the same
\* bucket b in slots b and (b + 1) mod size, after remove of the first key
\* slot b holds a tombstone and search finds the second key.
C13_TombstoneLeftAtBucket ==
  [][\A b \in 0..(size - 1) :
       removesFirst(b) =>
         /\ b + 1 \in DOMAIN table'
         /\ table'[b + 1] = TOMBSTONE
         /\ foundAfter(table[((b + 1) % size) + 1])]_vars

\* C13 amended: after remove of the first key search finds the second key;
\* slot b holds a tombstone, and the second key is still in slot
\* (b + 1) mod size behind it, when the removal triggered no rehash.
C13_SecondKeyStillFound ==
  [][\A b \in 0..(size - 1) :
       removesFirst(b) =>
         /\ foundAfter(table[((b + 1) % size) + 1])
         /\ result'.rehashes = <<>> =>
              /\ table'[b + 1] = TOMBSTONE
              /\ table'[((b + 1) % size) + 1] = table[((b + 1) % size) + 1]]_vars

\* the first of two colliding keys was removed without a rehash: its slot is
\* a tombstone and the second key sits behind it
C13_Witness ==
  /\ strategyName = "linearProbing"
  /\ called("remove")
  /\ result.status = "removed"
  /\ result.rehashes = <<>>
  /\ \E b \in 0..(size - 1) :
       /\ primaryIndex(result.key, size) = b
       /\ table[b + 1] = TOMBSTONE
       /\ table[((b + 1) % size) + 1] \notin {NULL, TOMBSTONE}
       /\ primaryIndex(table[((b + 1) % size) + 1], size) = b

\* Scenario B: a linear-probing table of 7 slots, empty or holding "3" alone
scenarioB(keys) ==
  /\ pc = "idle"
  /\ strategyName = "linearProbing"
  /\ size = 7
  /\ tombstones = 0
  /\ count = Cardinality(keys)
  /\ \A key \in keys : finds(key)

\* the insert of `key` by the step
inserts(key) ==
  result'.op = "insert" /\ result'.key = key /\ result'.status = "inserted"

\* C14 as stated: at size 7 the keys "3" and "10" both have primary index 3,
\* and insert of "3" then "10" into the empty linear-probing table of size 7
\* stores "3" in slot 3 and "10" in slot 4.
C14_BucketThree ==
  [][/\ scenarioB({}) /\ inserts(<<51>>) =>
          primaryIndex(<<51>>, 7) = 3 /\ table'[3 + 1] = <<51>>
     /\ scenarioB({<<51>>}) /\ inserts(<<49, 48>>) =>
          /\ primaryIndex(<<49, 48>>, 7) = 3
          /\ table'[3 + 1] = <<51>>
          /\ table'[4 + 1] = <<49, 48>>]_vars

\* C14 amended: at size 7 the keys "3" and "10" both have primary index 5
\* (906799682 mod 7 and 468396612 mod 7), and insert of "3" then "10" into
\* the empty linear-probing table of size 7 stores "3" in slot 5 and "10" in
\* slot 6.
C14_BucketFive ==
  [][/\ scenarioB({}) /\ inserts(<<51>>) =>
          primaryIndex(<<51>>, 7) = 5 /\ table'[5 + 1] = <<51>>
     /\ scenarioB({<<51>>}) /\ inserts(<<49, 48>>) =>
          /\ primaryIndex(<<49, 48>>, 7) = 5
          /\ table'[5 + 1] = <<51>>
          /\ table'[6 + 1] = <<49, 48>>]_vars

\* "3" then "10" were inserted into the empty table of 7 slots
C14_Witness ==
  /\ strategyName = "linearProbing"
  /\ size = 7
  /\ called("insert")
  /\ result.key = <<49, 48>>
  /\ result.status = "inserted"
  /\ result.rehashes = <<>>
  /\ count = 2
  /\ tombstones = 0
  /\ finds(<<51>>)

\* Scenario C: insert of a new key into a chaining table of 3 slots
growsFromThree ==
  /\ pc = "idle"
  /\ strategyName = "separateChaining"
  /\ size = 3
  /\ result'.op = "insert"
  /\ result'.status = "inserted"

\* C15: distinct keys inserted one at a time into a chaining table of size
\* 3 cause no rehash while count/size <= 1.15; the insert that takes the load
\* factor above 1.15 causes exactly one rehash, to a size larger than 3, and
\* every inserted key is found by search at the new size.
C15_GrowthOnce ==
  [][growsFromThree =>
       /\ count' = count + 1
       /\ count' * 100 <= 115 * 3 =>
            result'.rehashes = <<>> /\ size' = 3
       /\ count' * 100 > 115 * 3 =>
            /\ Len(result'.rehashes) = 1
            /\ result'.rehashes[1].from = 3
            /\ result'.rehashes[1].to = size'
            /\ size' > 3
       /\ \A key \in live \cup {result'.key} : foundAfter(key)]_vars

\* the fourth key went into the table of 3 slots, which grew
C15_Witness ==
  /\ strategyName = "separateChaining"
  /\ called("insert")
  /\ result.status = "inserted"
  /\ Len(result.rehashes) = 1
  /\ result.rehashes[1].from = 3
  /\ size > 3
  /\ count = 4
  /\ \A key \in live : finds(key)

\* C16: for every key and every table size from 3 to 199, secondaryStep is
\* never 0 and lies in 1..size - 1: it does at the size of every reachable
\* table, for every key the model hashes.
C16_StepInRange ==
  \A rawKey \in DOMAIN HashOf \cup DOMAIN SaturatingHashOf :
    /\ secondaryStep(rawKey, size) # 0
    /\ secondaryStep(rawKey, size) \in 1..(size - 1)

\* a double-hashing insert at size 7 that left the bucket of the key by its
\* step
C16_Witness ==
  /\ strategyName = "doubleHashing"
  /\ size = 7
  /\ called("insert")
  /\ result.status = "inserted"
  /\ table[primaryIndex(result.key, 7) + 1] # result.key
  /\ table[((primaryIndex(result.key, 7) + secondaryStep(result.key, 7)) % 7)
             + 1] = result.key

\* C17: in a chaining table every key stored in chain i has primary index i
\* at the current size, in every reachable state, after growth and shrink
\* rehashes too.
C17_KeysInOwnBucket ==
  strategyName = "separateChaining" =>
    \A i \in 1..Len(table) :
      \A j \in 1..Len(table[i]) : primaryIndex(table[i][j], size) = i - 1

\* a removal shrank a chaining table that holds two keys or more
C17_Witness ==
  /\ strategyName = "separateChaining"
  /\ called("remove")
  /\ Len(result.rehashes) = 1
  /\ result.rehashes[1].to < result.rehashes[1].from
  /\ count >= 2

\* the place of a key in the order of insertion
arrivalOf(key) == CHOOSE n \in 1..Len(arrival) : arrival[n] = key

\* C18: in a chaining table the keys of every chain appear in the order in
\* which they were inserted, in every reachable state, also after growth and
\* shrink rehashes (stated for the watched keys).
C18_ChainsKeepInsertionOrder ==
  strategyName = "separateChaining" =>
    \A i \in 1..Len(table) :
      \A j, k \in 1..Len(table[i]) :
        (j < k /\ table[i][j] \in WatchedKeys /\ table[i][k] \in WatchedKeys)
          => arrivalOf(table[i][j]) < arrivalOf(table[i][k])

\* the operations of the controller that rebuild the table
Rebuilds == {"reset", "switchStrategy", "setSize"}

\* every slot of the table after the step is empty
emptyAfter ==
  \A i \in 1..Len(table') :
    table'[i] = IF strategyMode(strategyName') = "open" THEN NULL ELSE <<>>

\* C19: after switchStrategy, setSize or reset the table is empty (count 0,
\* no key, no tombstone) and search for every key stored before yields
\* missing, whatever the table held.
C19_RebuildDiscardsKeys ==
  [][(pc = "idle" /\ result'.op \in Rebuilds) =>
       /\ count' = 0
       /\ tombstones' = 0
       /\ Len(table') = size'
       /\ emptyAfter
       /\ \A key \in Keys : ~foundAfter(key)]_vars

\* a table that held keys or tombstones was rebuilt
C19_Witness ==
  /\ pc = "returned"
  /\ result.op \in Rebuilds
  /\ result.status = "discarded"
  /\ count = 0

\* clamp(n, 3, 199) of a number
clamped(value) ==
  IF value.kind = "int" THEN Min(Max(value.v, 3), 199)
  ELSE IF value.v > 0 THEN 199 ELSE 3

\* the size the claim gives the table: the clamped number, raised to the
\* next prime for an open-addressing strategy
sizeFor(value, name) ==
  IF strategyMode(name) = "open"
  THEN CHOOSE p \in clamped(value)..199 :
         IsPrimeNumber(p) /\ \A q \in clamped(value)..(p - 1) : ~IsPrimeNumber(q)
  ELSE clamped(value)

\* C20: after setSize(n) the new table has size clamp(n, 3, 199), raised to
\* the next prime under an open-addressing strategy, for every number n: 0,
\* negative, above 199 and infinite included.
C20_SetSizeClamps ==
  [][\A value \in WideSizeInputs \ {NaN} :
       SetSize(value) => size' = sizeFor(value, strategyName)]_vars

\* the rehashes the running call was forced to by a saturated table
forcedRehashes == {i \in 1..Len(result.rehashes) : result.rehashes[i].forced}

\* C21: in an open-addressing insert the saturated case is unreachable: the
\* probe loop always meets the key, an empty slot or a tombstone, and the
\* forced growth-and-retry branch is never taken.
C21_NeverSaturated ==
  (openAddressing /\ called("insert")) => forcedRehashes = {}

\* C22: an open-addressing insert that finds the table saturated performs
\* one growth rehash and retries once: one call forces at most one rehash,
\* and then ends.
C22_RetriesOnce ==
  (openAddressing /\ called("insert")) => Cardinality(forcedRehashes) <= 1

\* C23: no open-addressing rehash fails to place a collected key: whatever
\* path invokes rehash, directInsert finds a free slot for every key and
\* 'Rehash failed to allocate slot.' is never raised.
C23_RehashNeverFails ==
  openAddressing =>
    /\ result.thrown # RehashFailed
    /\ \A r \in rehashesOf(result) : r.completed

\* the slots the probe sequence of a key visits in `size` attempts
probeSlots(key) ==
  {probeInfo(strategyName, createContext(strategyName, key, size), a, size) :
     a \in 0..(size - 1)}

\* C24: in a double-hashing table of prime size the slots (b + a * step) mod
\* size of the attempts a = 0 .. size - 1 of any key are pairwise distinct:
\* the probe sequence visits every slot exactly once.
C24_FullCycle ==
  (strategyName = "doubleHashing" /\ IsPrimeNumber(size)) =>
    \A key \in Keys \cup CompactionKeys : probeSlots(key) = 0..(size - 1)

\* a double-hashing insert into a table of 5 slots that went past the bucket
\* of its key
C24_Witness ==
  /\ strategyName = "doubleHashing"
  /\ size = 5
  /\ IsPrimeNumber(size)
  /\ called("insert")
  /\ result.status = "inserted"
  /\ result.rehashes = <<>>
  /\ table[primaryIndex(result.key, size) + 1] # result.key

\* the attempts of the probe sequence of a key that meet an empty slot, and
\* those that meet a tombstone
emptyAttempts(name, e, key) ==
  {a \in 0..(e.size - 1) :
     entryAt(name, e, createContext(name, key, e.size), a) = NULL}

tombstoneAttempts(name, e, key) ==
  {a \in 0..(e.size - 1) :
     entryAt(name, e, createContext(name, key, e.size), a) = TOMBSTONE}

least(S) == CHOOSE a \in S : \A b \in S : a <= b

\* the attempt whose slot the claim gives the key: the first tombstone met
\* before the first empty slot, else the first empty slot, -1 when neither
attemptBefore(tombstoneSet, emptySet) ==
  IF \E a \in tombstoneSet : emptySet = {} \/ a < least(emptySet)
  THEN least(tombstoneSet)
  ELSE IF emptySet # {} THEN least(emptySet) ELSE -1

targetAttempt(name, e, key) ==
  attemptBefore(tombstoneAttempts(name, e, key), emptyAttempts(name, e, key))

\* the table after the pre-insert check, of the retry when the first check
\* left a saturated table
checkedFor(name, e, key) ==
  IF targetAttempt(name, e, key) # -1 THEN e
  ELSE ensureCapacityBeforeInsert(name, forcedGrowth(name, e))

\* count one up, tombstones one down when the slot held a tombstone
storedAt(e, key, slot) ==
  [e EXCEPT !.table[slot + 1] = key,
            !.count = @ + 1,
            !.tombstones = IF e.table[slot + 1] = TOMBSTONE THEN @ - 1 ELSE @]

storedIn(name, e, key) ==
  storedAt(e, key,
           probeInfo(name, createContext(name, key, e.size),
                     targetAttempt(name, e, key), e.size))

\* the strategy the claim expects when insert returns inserted
insertedInto(name, m, key) ==
  maintainAfterInsert(
    name,
    storedIn(name,
             checkedFor(name, ensureCapacityBeforeInsert(name, m), key),
             key))

sameTable(m) ==
  /\ size' = m.size
  /\ table' = m.table
  /\ count' = m.count
  /\ tombstones' = m.tombstones

\* C25: an open-addressing insert that returns inserted stores the key at
\* the first tombstone met along its probe sequence before the first empty
\* slot if there is one, otherwise at that first empty slot; on the table
\* after the pre-insert check count grows by 1 and tombstones shrinks by 1
\* exactly when a tombstone was reused; post-insert maintenance follows.
C25_InsertFillsEarliestSlot ==
  [][(pc = "idle" /\ openAddressing /\ result'.op = "insert"
        /\ result'.status = "inserted")
       => sameTable(insertedInto(strategyName, strategy, result'.key))]_vars

\* a linear-probing insert put its key into its bucket b while the next slot
\* holds an older key of the same bucket: slot b was a tombstone
C25_Witness ==
  /\ strategyName = "linearProbing"
  /\ called("insert")
  /\ result.status = "inserted"
  /\ result.rehashes = <<>>
  /\ \E b \in 0..(size - 1) :
       /\ primaryIndex(result.key, size) = b
       /\ table[b + 1] = result.key
       /\ table[((b + 1) % size) + 1] \notin {NULL, TOMBSTONE}
       /\ primaryIndex(table[((b + 1) % size) + 1], size) = b

\* C26: after a successful open-addressing remove that does not shrink the
\* table, if tombstones > 0.25 * size and tombstones > count hold right after
\* the slot is tombstoned, a same-size rehash compacts the table and
\* tombstones = 0 when remove returns, at every size, size 3 included.
C26_RemoveCompacts ==
  [][(/\ pc = "idle"
      /\ openAddressing
      /\ result'.op = "remove"
      /\ result'.status = "removed"
      /\ size' = size
      /\ (tombstones + 1) * 100 > 25 * size
      /\ tombstones + 1 > count - 1)
       => tombstones' = 0]_vars

\* the length of chain i once `key` is appended to the chain of its bucket
lengthWith(i, key) ==
  Len(table[i]) + (IF primaryIndex(key, size) = i - 1 THEN 1 ELSE 0)

\* the chaining table must grow once `key` is in: more than 1.15 keys a
\* slot, or a chain of more than 4 keys
mustGrowWith(key) ==
  \/ (count + 1) * 100 > 115 * size
  \/ \E i \in 1..Len(table) : lengthWith(i, key) > 4

\* nextPrime(ceil(size * 1.6))
growthTarget == nextPrime((size * 16 + 9) \div 10)

\* C27: after a chaining insert that returns inserted the size is exactly
\* nextPrime(ceil(size * 1.6)) if, counting the new key, count/size > 1.15 or
\* the longest chain has more than 4 keys, and that target differs from
\* size; in every other case the size is unchanged.  At most one rehash
\* happens per insert.
C27_ChainingGrowth ==
  [][(/\ pc = "idle"
      /\ strategyName = "separateChaining"
      /\ result'.op = "insert"
      /\ result'.status = "inserted")
       => /\ size' = IF mustGrowWith(result'.key) /\ growthTarget # size
                     THEN growthTarget ELSE size
          /\ Len(result'.rehashes) <= 1
          /\ Len(result'.rehashes) = 1 <=> size' # size]_vars

\* a fifth key joined a chain of a table of 17 slots, which grew with fewer
\* keys than slots
C27_Witness ==
  /\ strategyName = "separateChaining"
  /\ called("insert")
  /\ result.status = "inserted"
  /\ Len(result.rehashes) = 1
  /\ result.rehashes[1].from = 17
  /\ count = 5
  /\ size = 29

\* the slot of attempt a of the probe sequence of `key` in the table as it is
slotOf(key, a) ==
  probeInfo(strategyName, createContext(strategyName, key, size), a, size)

\* the attempts of the probe sequence of the key stored in slot i that come
\* before the first one that reaches slot i
attemptsBefore(i) ==
  {a \in 0..(size - 1) : \A b \in 0..a : slotOf(table[i + 1], b) # i}

liveSlots ==
  {i \in 0..(size - 1) : table[i + 1] # NULL /\ table[i + 1] # TOMBSTONE}

\* C28: in an open-addressing table, between operations, every stored key is
\* on its own probe sequence and no empty slot occurs at an earlier attempt
\* of that sequence than the slot holding the key.
C28_NoHoleBeforeKey ==
  (pc = "idle" /\ openAddressing) =>
    \A i \in liveSlots :
      /\ \E a \in 0..(size - 1) : slotOf(table[i + 1], a) = i
      /\ \A a \in attemptsBefore(i) : table[slotOf(table[i + 1], a) + 1] # NULL

\* between two operations a tombstone, left by a remove, stands at an earlier
\* attempt of a key that is still stored
C28_Witness ==
  /\ pc = "idle"
  /\ openAddressing
  /\ tombstones > 0
  /\ \E i \in liveSlots :
       \E a \in attemptsBefore(i) :
         table[slotOf(table[i + 1], a) + 1] = TOMBSTONE

\* C29: in an open-addressing table of fewer than 199 slots the load factor
\* count/size is at most 0.72 after every insert, and after every remove
\* and shrink.
C29_LoadAtMost72 ==
  (openAddressing /\ size < MAX_TABLE_SIZE) => count * 100 <= 72 * size

\* a remove shrank the table and the load factor of the smaller table is
\* above 0.68, the threshold of the pre-insert growth
C29_Witness ==
  /\ openAddressing
  /\ called("remove")
  /\ result.status = "removed"
  /\ Len(result.rehashes) = 1
  /\ result.rehashes[1].to < result.rehashes[1].from
  /\ result.rehashes[1].completed
  /\ size < MAX_TABLE_SIZE
  /\ count * 100 > 68 * size

\* the slot as the snapshot taken after the call shows it holds the key
snapshotHolds(index, key) ==
  /\ index \in 0..(size - 1)
  /\ strategySnapshot(strategyName, strategy)[index + 1].state
       \in {"value", "chain"}
  /\ key \in Range(strategySnapshot(strategyName, strategy)[index + 1].items)

\* C30: every highlight index a call returns is a slot index of the table
\* as it is when the call returns, and when insert returns inserted the
\* slot of its last highlight, the 'placed' one, holds the inserted key in
\* the snapshot taken right after, also after a growth, shrink or
\* compaction rehash.
C30_HighlightsPointIntoTable ==
  pc = "returned" =>
    /\ \A i \in 1..Len(result.highlights) :
         result.highlights[i].index \in 0..(size - 1)
    /\ (result.op = "insert" /\ result.status = "inserted") =>
         /\ result.highlights # <<>>
         /\ result.highlights[Len(result.highlights)].type = "placed"
         /\ snapshotHolds(result.highlights[Len(result.highlights)].index,
                          result.key)

\* the slots of the table that hold the tombstone
tombstoneSlotsNow == {i \in 1..Len(table) : table[i] = TOMBSTONE}

\* C31: in every reachable state of an open-addressing table the tombstones
\* counter equals the number of slots that hold the tombstone.
C31_TombstonesCounted ==
  openAddressing => tombstones = Cardinality(tombstoneSlotsNow)

\* a remove has left a second tombstone in the table, and no rehash purged
\* them
C31_Witness ==
  /\ openAddressing
  /\ called("remove")
  /\ result.status = "removed"
  /\ result.rehashes = <<>>
  /\ tombstones = 2
  /\ Cardinality(tombstoneSlotsNow) = 2

\* the status an abstract set of keys gives the call
setStatus(op, present) ==
  IF op = "insert" THEN (IF present THEN "duplicate" ELSE "inserted")
  ELSE IF op = "search" THEN (IF present THEN "found" ELSE "missing")
  ELSE (IF present THEN "removed" ELSE "missing")

\* C32: from an empty table on, every insert, search and remove of each of
\* the four strategies returns the status an abstract set of keys gives it
\* (insert: inserted iff the key was absent, else duplicate; search: found
\* iff present; remove: removed iff present, else missing), whatever the
\* size and the resizes.
C32_StatusesOfASet ==
  [][(pc = "idle" /\ result'.op \in {"insert", "search", "remove"})
       => result'.status = setStatus(result'.op, result'.key \in live)]_vars

\* the integers the prime searches are tried on in a state: those within
\* PrimeMargin of the size of the table, so from below the minimum size to
\* above the maximum as the size runs from 3 to 199
PrimeMargin == 5

PrimeInputs == (size - PrimeMargin)..(size + PrimeMargin)

\* clamp(n, 3, 199)
clampOf(n) ==
  IF n < MIN_TABLE_SIZE THEN MIN_TABLE_SIZE
  ELSE IF n > MAX_TABLE_SIZE THEN MAX_TABLE_SIZE ELSE n

\* p is a prime of [3, 199]
primeInRange(p) ==
  /\ p \in MIN_TABLE_SIZE..MAX_TABLE_SIZE
  /\ IsPrimeNumber(p)

\* C33: for every integer n, nextPrime(n) is the smallest prime >=
\* clamp(n, 3, 199) and previousPrime(n) the largest prime <=
\* clamp(n, 3, 199); both are prime and lie in [3, 199].
C33_PrimeSearch ==
  \A n \in PrimeInputs :
    /\ primeInRange(nextPrime(n))
    /\ nextPrime(n) >= clampOf(n)
    /\ \A q \in clampOf(n)..(nextPrime(n) - 1) : ~IsPrimeNumber(q)
    /\ primeInRange(previousPrime(n))
    /\ previousPrime(n) <= clampOf(n)
    /\ \A q \in (previousPrime(n) + 1)..clampOf(n) : ~IsPrimeNumber(q)

\* a remove shrank an open-addressing table to the prime previousPrime found
\* below a composite target
C33_Witness ==
  /\ openAddressing
  /\ called("remove")
  /\ Len(result.rehashes) = 1
  /\ ~IsPrimeNumber(floorDiv16(result.rehashes[1].from))
  /\ result.rehashes[1].to = previousPrime(floorDiv16(result.rehashes[1].from))
  /\ result.rehashes[1].to < floorDiv16(result.rehashes[1].from)
  /\ size = result.rehashes[1].to

====
